---- MODULE Spec2Model ----
(***************************************************************************)
(* Q0 measurement: data sessions, run segmentation, settle trimming, run   *)
(* fitting, heater calibration and Q0 (src/container.py, src/utils.py).    *)
(*                                                                         *)
(* Numbers.  Python/numpy floats are modelled by exact rationals extended  *)
(* with +inf, -inf and nan, the values numpy's float64 division produces   *)
(* (x/0 is +-inf, 0/0 is nan, with a warning, no exception).  Rounding is  *)
(* not modelled.  A number is a record [n, d]: d > 0 is the reduced        *)
(* fraction n/d, d = 0 is +inf (n = 1), -inf (n = -1) or nan (n = 0).      *)
(* Python's None is the record with d = -1.                                *)
(***************************************************************************)
EXTENDS Integers, Sequences, FiniteSets, TLC

(***************************************************************************)
(* Bounds of the model.                                                    *)
(***************************************************************************)
\* longest CSV file (number of sample rows) of the exhaustive specification
MaxN == 3
\* largest number of stable blocks of the block-structured specification
MaxBlocks == 3
\* number of sessions of a batch (the rows of parseInputFile's input file)
MaxSessions == 2
\* largest number of sessions a container stores
MaxStored == 2

(***************************************************************************)
(* Program constants (src/utils.py).                                       *)
(***************************************************************************)
MIN_DS_LL == 90
VALVE_POSITION_TOLERANCE == 2
HEATER_TOLERANCE == 1
MIN_RUN_DURATION == 900
\* 0.7 MV/m
GRAD_TOLERANCE == [n |-> 7, d |-> 10]

(***************************************************************************)
(* Extended rational arithmetic.                                           *)
(***************************************************************************)
Abs(x) == IF x < 0 THEN -x ELSE x

Sign(x) == IF x < 0 THEN -1 ELSE IF x > 0 THEN 1 ELSE 0

RECURSIVE GCD(_, _)
GCD(a, b) == IF b = 0 THEN a ELSE GCD(b, a % b)

\* the number n/d, reduced; d = 0 gives +-inf or nan
Rat(n, d) ==
    IF d = 0 THEN [n |-> Sign(n), d |-> 0]
    ELSE LET g == GCD(Abs(n), Abs(d))
         IN  [n |-> Sign(d) * (n \div g), d |-> Abs(d) \div g]

I(k) == [n |-> k, d |-> 1]

NaN == [n |-> 0, d |-> 0]

None == [n |-> 0, d |-> -1]

IsNone(a) == a.d = -1

IsNaN(a) == a.d = 0 /\ a.n = 0

IsInf(a) == a.d = 0 /\ a.n # 0

IsFinite(a) == a.d > 0

RSign(a) == Sign(a.n)

RNeg(a) == [n |-> -a.n, d |-> a.d]

RAdd(a, b) ==
    IF IsNaN(a) \/ IsNaN(b) THEN NaN
    ELSE IF IsInf(a) THEN (IF IsInf(b) /\ b.n # a.n THEN NaN ELSE a)
    ELSE IF IsInf(b) THEN b
    ELSE LET g == GCD(a.d, b.d)
         IN  Rat(a.n * (b.d \div g) + b.n * (a.d \div g), (a.d \div g) * b.d)

RSub(a, b) == RAdd(a, RNeg(b))

RMul(a, b) ==
    IF IsNaN(a) \/ IsNaN(b) THEN NaN
    ELSE IF IsInf(a) \/ IsInf(b)
         THEN (IF a.n = 0 \/ b.n = 0 THEN NaN
               ELSE [n |-> RSign(a) * RSign(b), d |-> 0])
    ELSE LET g1 == GCD(Abs(a.n), b.d)
             g2 == GCD(Abs(b.n), a.d)
         IN  Rat((a.n \div g1) * (b.n \div g2),
                 (a.d \div g2) * (b.d \div g1))

\* numpy float64 division: x/0 = +-inf, 0/0 = nan, x/inf = 0, inf/inf = nan
RDiv(a, b) ==
    IF IsNaN(a) \/ IsNaN(b) THEN NaN
    ELSE IF IsInf(b) THEN (IF IsInf(a) THEN NaN ELSE I(0))
    ELSE IF IsInf(a) THEN [n |-> a.n * (IF b.n < 0 THEN -1 ELSE 1), d |-> 0]
    ELSE IF b.n = 0 THEN [n |-> Sign(a.n), d |-> 0]
    ELSE LET g1 == GCD(Abs(a.n), Abs(b.n))
             g2 == GCD(a.d, b.d)
         IN  Rat((a.n \div g1) * (b.d \div g2),
                 (a.d \div g2) * (b.n \div g1))

RAbs(a) == [n |-> Abs(a.n), d |-> a.d]

\* a < b; every comparison with nan is false
RLt(a, b) ==
    IF IsNaN(a) \/ IsNaN(b) THEN FALSE
    ELSE IF IsInf(a) THEN a.n < 0 /\ ~(IsInf(b) /\ b.n < 0)
    ELSE IF IsInf(b) THEN b.n > 0
    ELSE LET g == GCD(a.d, b.d)
         IN  a.n * (b.d \div g) < b.n * (a.d \div g)

REq(a, b) == ~IsNaN(a) /\ ~IsNaN(b) /\ a = b

RLe(a, b) == RLt(a, b) \/ REq(a, b)

\* int(x) of a finite number: truncation toward zero
RInt(a) == Sign(a.n) * (Abs(a.n) \div a.d)

RECURSIVE RSum(_)
RSum(s) == IF s = <<>> THEN I(0) ELSE RAdd(Head(s), RSum(Tail(s)))

\* numpy.mean; the mean of an empty list is nan (0/0, with a warning)
Mean(s) == RDiv(RSum(s), I(Len(s)))

\* Python slice s[a:b] for 0 <= a, with 0-based indices
Slice(s, a, b) ==
    LET hi == IF b > Len(s) THEN Len(s) ELSE b
    IN  IF a >= hi THEN <<>> ELSE SubSeq(s, a + 1, hi)

\* s[i] with a 0-based index
At(s, i) == s[i + 1]


(***************************************************************************)
(* State.                                                                  *)
(***************************************************************************)
VARIABLES
    sessionType,      \* "calib": CalibDataSession, "q0": Q0DataSession
    csvHeader,        \* the columns of the header row of the session's CSV file
    csvRows,          \* the rows of the session's CSV file (self.fileName)
    refValvePos, refHeatLoad, refGradVal,
    unixTimeBuff, valvePosBuff, dsLevelBuff, gradBuff, dsPressBuff,
    elecHeatDesBuff, elecHeatActBuff,
    dataRuns, heaterRunIdxs, rfRunIdxs,
    idx, runStartIdx, \* populateRuns' loop index and current run start
    settleIdx,        \* adjustForSettle's loop index i
    calibSlope,       \* _calibSlope, or the calibSession's for a q0 session
    yIntercept,       \* processRuns' local yIntercept
    heatAdjustment,   \* CalibDataSession._heatAdjustment
    pc,               \* position inside processData
    outcome,          \* "running", "noRuns", "done" or the exception raised
    stderr,           \* the messages the session wrote with writeAndFlushStdErr
    calls,            \* number of processData calls started on the session
    batchPos,         \* 0: a session on its own; k: k-th session of a batch
    batchLog,         \* outcomes of the batch's sessions before this one
    batchStatus,      \* "none", "running", "aborted" or "finished"
    dataSessions,     \* Container.dataSessions: session hash -> session
    lastCall,         \* the arguments of the last addDataSession call
    returned          \* the session the last addDataSession call returned

vars == <<sessionType, csvHeader, csvRows, refValvePos, refHeatLoad,
          refGradVal, unixTimeBuff, valvePosBuff, dsLevelBuff, gradBuff,
          dsPressBuff, elecHeatDesBuff, elecHeatActBuff, dataRuns,
          heaterRunIdxs, rfRunIdxs, idx, runStartIdx, settleIdx, calibSlope,
          yIntercept, heatAdjustment, pc, outcome, stderr, calls, batchPos,
          batchLog, batchStatus, dataSessions, lastCall, returned>>

\* the container's dictionary of sessions and its last addDataSession call
container == <<dataSessions, lastCall, returned>>

buffers == <<unixTimeBuff, valvePosBuff, dsLevelBuff, gradBuff, dsPressBuff,
             elecHeatDesBuff, elecHeatActBuff>>

refs == <<sessionType, csvHeader, csvRows, refValvePos, refHeatLoad,
          refGradVal>>

\* the state of the caller: the calls it made and its batch
driver == <<calls, batchPos, batchLog, batchStatus>>

runVars == <<dataRuns, heaterRunIdxs, rfRunIdxs>>

fitVars == <<calibSlope, yIntercept, heatAdjustment>>

(***************************************************************************)
(* Inputs: the CSV files a session is created on.                          *)
(***************************************************************************)
\* reference values the sessions are created with
RefValvePosSet == {I(20)}

RefHeatLoadSet == {I(2)}

RefGradSet == {I(16)}

\* sampling intervals (timeInt), seconds
TimeIntSet == {450, 900}

\* heater setpoints: the reference heat load and one heater setting
DesSet == {I(2), I(4)}

\* the columns of a CSV file, by the field of the row they hold: the time
\* stamp, the valve, level, gradient and pressure PVs, "Electric Heat Load
\* Setpoint" and "Electric Heat Load Readback"
AllColumns == {"t", "valve", "lvl", "des", "act", "grad", "press"}

\* the columns a session links to a buffer: pvBuffMap and the two heater
\* columns
linkedColumns(type) ==
    {"valve", "lvl", "des", "act"} \cup
        (IF type = "q0" THEN {"grad", "press"} ELSE {})

\* a field whose text float() rejects with ValueError
Unparseable == [n |-> 0, d |-> -2]

\* A sample row.  "ok" is a stable sample; each other condition makes one
\* signal leave its band.
Conditions == {"ok", "lowLevel", "valveOut", "heaterOut"}

\* Conditions that leave every signal of a calibration session inside its
\* band: "heaterNear" is a heater readback half a watt off the setpoint,
\* "gradStep" a step in the gradient column of the file.
QuietConditions == {"ok", "heaterNear", "gradStep"}

GradConditions == {"gradStep", "gradZero"}

Row(t, des, cond, refValve) ==
    [t     |-> I(t),
     des   |-> des,
     act   |-> IF cond = "heaterOut" THEN RAdd(des, I(HEATER_TOLERANCE))
               ELSE IF cond = "heaterNear" THEN RAdd(des, Rat(1, 2))
               ELSE des,
     lvl   |-> IF cond = "lowLevel" THEN I(MIN_DS_LL - 1) ELSE I(MIN_DS_LL + 2),
     valve |-> IF cond = "valveOut"
               THEN RAdd(refValve, I(VALVE_POSITION_TOLERANCE + 1))
               ELSE RAdd(refValve, I(VALVE_POSITION_TOLERANCE)),
     grad  |-> IF cond = "gradStep" THEN I(15)
               ELSE IF cond = "gradZero" THEN I(0) ELSE I(16),
     press |-> I(23)]

\* a q0 file varies the gradient instead of the level and the heater readback
RowChoices(type) ==
    DesSet \X (IF type = "q0" THEN {"ok", "valveOut"} \cup GradConditions
               ELSE Conditions)

QuietRowChoices == DesSet \X QuietConditions

\* unix time of sample i (0-based) of a file sampled every timeInt seconds
SampleTime(i, timeInt) == 100 + i * timeInt

\* the files of at most MaxN rows over the given row choices
FilesOver(choices, refValve) ==
    UNION {{[i \in 1..n |-> Row(SampleTime(i - 1, ti), c[i][1], c[i][2],
                                refValve)] :
                c \in [1..n -> choices], ti \in TimeIntSet} :
           n \in 0..MaxN}

\* the files of at most MaxN rows; a calibration file is made of rows of
\* RowChoices or of quiet rows
CsvFiles(type, refValve) ==
    FilesOver(RowChoices(type), refValve)
        \cup (IF type = "calib" THEN FilesOver(QuietRowChoices, refValve)
              ELSE {})

(***************************************************************************)
(* Longer files made of stable blocks: BlockLen samples at one heater      *)
(* setpoint with the level falling at a constant rate, then one closing    *)
(* sample.  Every signal stays inside its band, so the runs are the blocks *)
(* (adjacent blocks at the same setpoint form one run).                    *)
(***************************************************************************)
BlockPositions == 0..3

BlockLen == Cardinality(BlockPositions)

BlockTimeIntSet == {300}

\* a block: its heater setpoint and the fall of the level per sample, in
\* tenths of a percent
BlockChoices == {<<I(2), 1>>, <<I(4), 1>>, <<I(4), 2>>, <<I(6), 1>>}

\* gradient readings of a q0 file: all valid, all 0, or unparseable at the
\* last two positions of every block; "warm" is a file of valid gradients
\* taken at a helium pressure of 24 Torr instead of 23 Torr
GradModes == {"valid", "zero", "none", "warm"}

BlockRow(i, ti, des, rate, mode, refValve) ==
    LET pos == i % BlockLen
    IN  [t     |-> I(SampleTime(i, ti)),
         des   |-> des,
         act   |-> des,
         lvl   |-> RSub(I(MIN_DS_LL + 4), Rat(rate * pos, 10)),
         valve |-> refValve,
         grad  |-> IF mode = "zero" THEN I(0)
                   ELSE IF mode = "none" /\ pos >= BlockLen - 2
                        THEN Unparseable
                   ELSE I(16),
         press |-> IF mode = "warm" THEN I(24) ELSE I(23)]

\* the closing sample continues the last block
BlockFile(nb, c, ti, mode, refValve) ==
    [i \in 1..(nb * BlockLen + 1) |->
        LET k == IF i > nb * BlockLen THEN nb ELSE ((i - 1) \div BlockLen) + 1
        IN  IF i > nb * BlockLen
            THEN [BlockRow(BlockLen - 1, ti, c[k][1], c[k][2],
                           IF mode = "warm" THEN mode ELSE "valid", refValve)
                    EXCEPT !.t = I(SampleTime(i - 1, ti))]
            ELSE BlockRow(i - 1, ti, c[k][1], c[k][2], mode, refValve)]

BlockFiles(type, refValve) ==
    UNION {{BlockFile(nb, c, ti, mode, refValve) :
                c \in [1..nb -> BlockChoices],
                ti \in BlockTimeIntSet,
                mode \in IF type = "q0" THEN GradModes ELSE {"valid"}} :
           nb \in 1..MaxBlocks}

\* calibration slopes (%/(s*W)) of the calibration session of a q0 session
CalibSlopeSet == {Rat(-1, 6000), Rat(-1, 9000)}

\* the files of at most MaxN rows whose samples are all stable; the gradient
\* of a q0 file is the reference gradient or reads 0 throughout
PlainFiles(type, refValve) ==
    UNION {{[i \in 1..n |-> Row(SampleTime(i - 1, ti), c[i], cond, refValve)] :
                c \in [1..n -> DesSet], ti \in TimeIntSet,
                cond \in IF type = "q0" THEN {"ok", "gradZero"} ELSE {"ok"}} :
           n \in 0..MaxN}

\* headers that lack one column
IncompleteHeaders == {AllColumns \ {c} : c \in AllColumns}

\* the state of a session when its __init__ calls processData, as the
\* pos-th session of a batch (0: on its own)
InitSession(files, headers, pos) ==
    /\ sessionType \in {"calib", "q0"}
    /\ refValvePos \in RefValvePosSet
    /\ refHeatLoad \in RefHeatLoadSet
    /\ refGradVal \in IF sessionType = "q0" THEN RefGradSet ELSE {None}
    /\ csvRows \in files[sessionType][refValvePos]
    /\ csvHeader \in headers
    /\ stderr = <<>>
    /\ calls = 1
    /\ batchPos = pos
    /\ batchLog = <<>>
    /\ batchStatus = IF pos = 0 THEN "none" ELSE "running"
    /\ unixTimeBuff = <<>> /\ valvePosBuff = <<>> /\ dsLevelBuff = <<>>
    /\ gradBuff = <<>> /\ dsPressBuff = <<>>
    /\ elecHeatDesBuff = <<>> /\ elecHeatActBuff = <<>>
    /\ dataRuns = <<>> /\ heaterRunIdxs = <<>> /\ rfRunIdxs = <<>>
    /\ idx = 0 /\ runStartIdx = 0 /\ settleIdx = 0
    /\ calibSlope \in IF sessionType = "q0" THEN CalibSlopeSet ELSE {None}
    /\ yIntercept = None
    /\ heatAdjustment = None
    /\ pc = "parse"
    /\ outcome = "running"
    /\ dataSessions = <<>>
    /\ lastCall = <<>>
    /\ returned = <<>>

\* A session created on its own on any file, or on a file of stable samples
\* that lacks a column; or the first session of a batch, on a file of stable
\* samples.
Init ==
    \/ InitSession([type \in {"calib", "q0"} |->
                       [rv \in RefValvePosSet |->
                           CsvFiles(type, rv) \cup BlockFiles(type, rv)]],
                   {AllColumns}, 0)
    \/ InitSession([type \in {"calib", "q0"} |->
                       [rv \in RefValvePosSet |-> PlainFiles(type, rv)]],
                   IncompleteHeaders, 0)
    \/ InitSession([type \in {"calib", "q0"} |->
                       [rv \in RefValvePosSet |-> PlainFiles(type, rv)]],
                   {AllColumns}, 1)

(***************************************************************************)
(* DataSession.parseDataFromCSV.  linkBuffToColumn links a buffer to its   *)
(* column, or reports a column the header lacks and leaves the buffer      *)
(* unlinked.  A calibration session links the valve, level and heater      *)
(* columns; a q0 session also links gradient and pressure.  A header       *)
(* without a time column raises ValueError.  Every row then appends its    *)
(* time to unixTimeBuff and one entry to each linked buffer: float(field), *)
(* or None with a message when float() raises ValueError.                  *)
(***************************************************************************)
\* the order in which the columns are linked and filled
ColumnOrder == <<"valve", "lvl", "grad", "press", "des", "act">>

isLinked(f) == f \in linkedColumns(sessionType) /\ f \in csvHeader

\* fault variant of parseField: an unparseable field is stored as 0
parseFieldAsZero(field) == IF field = Unparseable THEN I(0) ELSE field

\* float(field), or None when float() raises ValueError
parseField(field) == IF field = Unparseable THEN None ELSE field

Column(rows, f) == [i \in 1..Len(rows) |-> parseField(rows[i][f])]

\* the buffer of column f after the rows loop
filled(buff, f) == IF isLinked(f) THEN buff \o Column(csvRows, f) ELSE buff

\* "Column ... not found in CSV", once per column the header lacks
RECURSIVE columnMessages(_)
columnMessages(k) ==
    IF k > Len(ColumnOrder) THEN <<>>
    ELSE (IF ColumnOrder[k] \in linkedColumns(sessionType) \ csvHeader
          THEN <<[msg |-> "Column not found", col |-> ColumnOrder[k]]>>
          ELSE <<>>) \o columnMessages(k + 1)

\* "Could not fill buffer: ...", once per unparseable field of a linked
\* column, row by row
fillMessages ==
    LET nCols == Len(ColumnOrder)
        fields == [k \in 1..(Len(csvRows) * nCols) |->
                      [row |-> ((k - 1) \div nCols) + 1,
                       col |-> ColumnOrder[((k - 1) % nCols) + 1]]]
        failed == SelectSeq(fields,
                      LAMBDA f : /\ isLinked(f.col)
                                 /\ csvRows[f.row][f.col] = Unparseable)
    IN  [k \in 1..Len(failed) |->
            [msg |-> "Could not fill buffer", col |-> failed[k].col]]

\* the body of parseDataFromCSV, followed by the first statement of
\* populateRuns
parseCSV ==
    IF "t" \notin csvHeader
    THEN /\ pc' = "raised"
         /\ outcome' = "ValueError"
         /\ stderr' = stderr \o columnMessages(1)
         /\ UNCHANGED <<buffers, idx, runStartIdx>>
    ELSE /\ unixTimeBuff' = unixTimeBuff \o Column(csvRows, "t")
         /\ valvePosBuff' = filled(valvePosBuff, "valve")
         /\ dsLevelBuff' = filled(dsLevelBuff, "lvl")
         /\ elecHeatDesBuff' = filled(elecHeatDesBuff, "des")
         /\ elecHeatActBuff' = filled(elecHeatActBuff, "act")
         /\ gradBuff' = filled(gradBuff, "grad")
         /\ dsPressBuff' = filled(dsPressBuff, "press")
         /\ stderr' = stderr \o columnMessages(1) \o fillMessages
         /\ idx' = 0
         /\ runStartIdx' = 0
         /\ pc' = IF Len(elecHeatDesBuff') = 0 THEN "checkRuns" ELSE "populate"
         /\ outcome' = "running"

parseDataFromCSV ==
    /\ pc = "parse"
    /\ parseCSV
    /\ UNCHANGED <<container, refs, runVars, settleIdx, fitVars, driver>>

\* A caller calls processData on a session whose processData has returned:
\* parseInputFile does so once with every session it has created.
processDataAgain ==
    /\ pc = "done"
    /\ batchStatus = "running"
    /\ calls = 1
    /\ calls' = calls + 1
    /\ parseCSV
    /\ UNCHANGED <<container, refs, runVars, settleIdx, fitVars, batchPos, batchLog,
                   batchStatus>>

(***************************************************************************)
(* DataRun.__init__, HeaterDataRun, RFDataRun.                             *)
(***************************************************************************)
DataRun(kind, runStartIdx0, runEndIdx, num) ==
    [kind            |-> kind,
     num             |-> num,
     startIdx        |-> runStartIdx0,
     endIdx          |-> runEndIdx,
     elecHeatLoadDes |-> RSub(At(elecHeatDesBuff, runStartIdx0), refHeatLoad),
     heatActDelta    |-> RSub(Mean(Slice(elecHeatActBuff, runStartIdx0,
                                         runEndIdx)),
                              At(elecHeatActBuff, 0)),
     slope           |-> None,
     intercept       |-> None,
     cutoff          |-> None,
     calculatedQ0    |-> None,
     numInvalidGrads |-> 0,
     gradsUsed       |-> <<>>]

(***************************************************************************)
(* DataSession._isEndOfCalibRun, _checkAndFlushRun, _addRun.               *)
(***************************************************************************)
\* fault variant of heaterChanged: a change of the setpoint is not detected
heaterChangedNever(i) == FALSE

heaterChanged(i) ==
    LET elecHeatLoadDes == At(elecHeatDesBuff, i)
        prevElecHeatLoadDes == IF i > 0 THEN At(elecHeatDesBuff, i - 1)
                               ELSE elecHeatLoadDes
    IN  ~REq(elecHeatLoadDes, prevElecHeatLoadDes)

liqLevelTooLow(i) == RLt(At(dsLevelBuff, i), I(MIN_DS_LL))

valveOutsideTol(i) ==
    RLt(I(VALVE_POSITION_TOLERANCE),
        RAbs(RSub(At(valvePosBuff, i), refValvePos)))

\* fault variant of isLastElement: the last sample does not end the run
isLastElementNever(i) == FALSE

isLastElement(i) == i = Len(elecHeatDesBuff) - 1

heatersOutsideTol(i) ==
    RLe(I(HEATER_TOLERANCE),
        RAbs(RSub(At(elecHeatDesBuff, i), At(elecHeatActBuff, i))))

isEndOfCalibRun(i) ==
    \/ heaterChanged(i)
    \/ liqLevelTooLow(i)
    \/ valveOutsideTol(i)
    \/ isLastElement(i)
    \/ heatersOutsideTol(i)

\* fault variant of isHeaterRun: the setpoint is compared with 0 instead of
\* the reference heat load
isHeaterRunVsZero(startIdx0) == ~REq(At(elecHeatDesBuff, startIdx0), I(0))

isHeaterRun(startIdx0) ==
    ~REq(RSub(At(elecHeatDesBuff, startIdx0), refHeatLoad), I(0))

\* fault variant of addRun: the run takes in the sample after its end
addRunWithNextSample(startIdx0, endIdx0) ==
    LET runIdx == Len(dataRuns)
        runNum == runIdx + 1
    IN  IF isHeaterRun(startIdx0)
        THEN <<Append(dataRuns,
                      DataRun("heater", startIdx0, endIdx0 + 1, runNum)),
               Append(heaterRunIdxs, runIdx), rfRunIdxs>>
        ELSE <<Append(dataRuns, DataRun("rf", startIdx0, endIdx0 + 1, runNum)),
               heaterRunIdxs, Append(rfRunIdxs, runIdx)>>

\* the run list, heaterRunIdxs and rfRunIdxs after _addRun(startIdx, endIdx)
addRun(startIdx0, endIdx0) ==
    LET runIdx == Len(dataRuns)
        runNum == runIdx + 1
    IN  IF isHeaterRun(startIdx0)
        THEN <<Append(dataRuns, DataRun("heater", startIdx0, endIdx0, runNum)),
               Append(heaterRunIdxs, runIdx), rfRunIdxs>>
        ELSE <<Append(dataRuns, DataRun("rf", startIdx0, endIdx0, runNum)),
               heaterRunIdxs, Append(rfRunIdxs, runIdx)>>

runDuration(i, start) == RSub(At(unixTimeBuff, i), At(unixTimeBuff, start))

\* fault variant of flushes: a run is kept for its number of samples, not
\* for the time it spans
flushesBySampleCount(i, start) == i - start >= 2

\* does _checkAndFlushRun(TRUE, i, start) add the run [start, i - 1]
flushes(i, start) == RLe(I(MIN_RUN_DURATION), runDuration(i, start))

\* one iteration of populateRuns' loop, given the iteration's isEndOfRun
checkAndFlushRun(isEndOfRun) ==
    /\ LET added == IF isEndOfRun /\ flushes(idx, runStartIdx)
                    THEN addRun(runStartIdx, idx - 1)
                    ELSE <<dataRuns, heaterRunIdxs, rfRunIdxs>>
       IN  /\ dataRuns' = added[1]
           /\ heaterRunIdxs' = added[2]
           /\ rfRunIdxs' = added[3]
    /\ runStartIdx' = IF isEndOfRun THEN idx ELSE runStartIdx
    /\ idx' = idx + 1
    /\ pc' = IF idx + 1 = Len(elecHeatDesBuff) THEN "checkRuns" ELSE "populate"
    /\ UNCHANGED <<container, refs, buffers, settleIdx, fitVars, outcome, stderr, driver>>

\* an iteration of populateRuns' loop that reads past the end of a buffer
\* whose column the file lacks
populateIndexError ==
    /\ pc' = "raised"
    /\ outcome' = "IndexError"
    /\ UNCHANGED <<container, refs, buffers, runVars, idx, runStartIdx, settleIdx,
                   fitVars, stderr, driver>>

\* can iteration i of the loop read entry i of the buffers it uses
calibReadable(i) ==
    /\ i < Len(dsLevelBuff)
    /\ i < Len(valvePosBuff)
    /\ i < Len(elecHeatActBuff)

q0Readable(i) == calibReadable(i) /\ (i # 0 => i < Len(gradBuff))

(***************************************************************************)
(* CalibDataSession.populateRuns and Q0DataSession.populateRuns, one loop  *)
(* iteration per step.                                                     *)
(***************************************************************************)
CalibPopulateRuns ==
    /\ pc = "populate"
    /\ sessionType = "calib"
    /\ IF calibReadable(idx) THEN checkAndFlushRun(isEndOfCalibRun(idx))
       ELSE populateIndexError

\* fault variant of gradChanged: a step of the gradient is not detected
gradChangedNever(i) == FALSE

\* abs(None - x) raises TypeError, which the loop catches
gradChanged(i) ==
    IF i = 0 THEN FALSE
    ELSE IF IsNone(At(gradBuff, i)) \/ IsNone(At(gradBuff, i - 1)) THEN FALSE
    ELSE RLt(GRAD_TOLERANCE, RAbs(RSub(At(gradBuff, i), At(gradBuff, i - 1))))

Q0PopulateRuns ==
    /\ pc = "populate"
    /\ sessionType = "q0"
    /\ IF q0Readable(idx)
       THEN checkAndFlushRun(isEndOfCalibRun(idx) \/ gradChanged(idx))
       ELSE populateIndexError

(***************************************************************************)
(* DataSession.processData after populateRuns: a session without runs      *)
(* prints "has no runs to process and plot" and returns.                   *)
(***************************************************************************)
\* fault variant of hasNoRuns: the check for an empty run list is missing
hasNoRunsNever == FALSE

hasNoRuns == dataRuns = <<>>

CheckRuns ==
    /\ pc = "checkRuns"
    /\ IF hasNoRuns
       THEN pc' = "done" /\ outcome' = "noRuns"
       ELSE pc' = "settle" /\ outcome' = outcome
    /\ settleIdx' = 0
    /\ UNCHANGED <<container, refs, buffers, runVars, idx, runStartIdx, fitVars, stderr,
                   driver>>

(***************************************************************************)
(* getTotalHeatDelta of both session classes and adjustForSettle, one run  *)
(* of the loop per step.                                                   *)
(***************************************************************************)
\* (grad / 16) ** 2 * 9.6 if grad > 0 else 0; None > 0 is False in Python 2
approxHeatFromGrad(grad) ==
    IF IsNone(grad) \/ ~RLt(I(0), grad) THEN I(0)
    ELSE RMul(RMul(RDiv(grad, I(16)), RDiv(grad, I(16))), Rat(96, 10))

CalibGetTotalHeatDelta(startIdx0, currIdx) ==
    IF currIdx = 0
    THEN RSub(At(elecHeatDesBuff, startIdx0), refHeatLoad)
    ELSE LET prevStartIdx == dataRuns[currIdx].startIdx
             elecHeatDelta == RSub(At(elecHeatDesBuff, startIdx0),
                                   At(elecHeatDesBuff, prevStartIdx))
         IN  RAbs(elecHeatDelta)

Q0GetTotalHeatDelta(startIdx0, currIdx) ==
    IF currIdx = 0
    THEN RAdd(RSub(At(elecHeatDesBuff, startIdx0), refHeatLoad),
              approxHeatFromGrad(At(gradBuff, startIdx0)))
    ELSE LET prevStartIdx == dataRuns[currIdx].startIdx
             elecHeatDelta == RSub(At(elecHeatDesBuff, startIdx0),
                                   At(elecHeatDesBuff, prevStartIdx))
             currGradHeatLoad == approxHeatFromGrad(At(gradBuff, startIdx0))
             prevGradHeatLoad == approxHeatFromGrad(At(gradBuff, prevStartIdx))
             gradHeatDelta == RSub(currGradHeatLoad, prevGradHeatLoad)
         IN  RAbs(RAdd(elecHeatDelta, gradHeatDelta))

getTotalHeatDelta(startIdx0, currIdx) ==
    IF sessionType = "q0" THEN Q0GetTotalHeatDelta(startIdx0, currIdx)
    ELSE CalibGetTotalHeatDelta(startIdx0, currIdx)

\* fault variant of settleCutoff: the product is rounded to the nearest
\* second instead of truncated
settleCutoffRounded(totalHeatDelta) ==
    RInt(RAdd(RMul(totalHeatDelta, I(25)), Rat(1, 2)))

\* cutoff = int(totalHeatDelta * 25)
settleCutoff(totalHeatDelta) == RInt(RMul(totalHeatDelta, I(25)))

\* The while loop of adjustForSettle: the index it stops at, starting with
\* index j and the given duration; -1 when it reads past the buffer's end
\* (IndexError).
RECURSIVE settleScan(_, _, _, _)
settleScan(j, duration, startTime, cutoff) ==
    IF ~RLt(duration, I(cutoff)) THEN j
    ELSE IF j + 1 >= Len(unixTimeBuff) THEN -1
    ELSE settleScan(j + 1, RSub(At(unixTimeBuff, j + 1), startTime),
                    startTime, cutoff)

\* fault variant of trimmedStart: the loop advances once before it tests
\* the duration
trimmedStartDoWhile(start, cutoff) ==
    IF start + 1 >= Len(unixTimeBuff) THEN -1
    ELSE settleScan(start + 1,
                    RSub(At(unixTimeBuff, start + 1), At(unixTimeBuff, start)),
                    At(unixTimeBuff, start), cutoff)

\* the index the while loop ends at for a run that starts at start:
\* idx = startIdx, startTime = unixTimeBuff[idx], duration = 0
trimmedStart(start, cutoff) ==
    settleScan(start, I(0), At(unixTimeBuff, start), cutoff)

adjustForSettle ==
    /\ pc = "settle"
    /\ settleIdx < Len(dataRuns)
    /\ LET i == settleIdx
           run == dataRuns[i + 1]
           cutoff == settleCutoff(getTotalHeatDelta(run.startIdx, i))
           newIdx == trimmedStart(run.startIdx, cutoff)
       IN  IF newIdx = -1
           THEN /\ dataRuns' = [dataRuns EXCEPT ![i + 1].cutoff = I(cutoff)]
                /\ pc' = "raised"
                /\ outcome' = "IndexError"
                /\ settleIdx' = settleIdx
           ELSE /\ dataRuns' = [dataRuns EXCEPT ![i + 1].cutoff = I(cutoff),
                                                ![i + 1].startIdx = newIdx]
                /\ settleIdx' = settleIdx + 1
                /\ pc' = IF settleIdx + 1 = Len(dataRuns) THEN "processRuns"
                         ELSE "settle"
                /\ outcome' = outcome
    /\ UNCHANGED <<container, refs, buffers, heaterRunIdxs, rfRunIdxs, idx, runStartIdx,
                   fitVars, stderr, driver>>

(***************************************************************************)
(* DataRun.process: scipy.stats.linregress of the run's level slice        *)
(* against its time slice, [startIdx:endIdx].  linregress raises           *)
(* ValueError on empty inputs; otherwise slope = cov(x, y) / var(x) with   *)
(* float division (nan for a single point), intercept = ymean -            *)
(* slope * xmean.  The diagnostics (R^2, Duration) are not modelled.       *)
(***************************************************************************)
SeqMul(x, y) == [k \in 1..Len(x) |-> RMul(x[k], y[k])]

Centered(x) == [k \in 1..Len(x) |-> RSub(x[k], Mean(x))]

\* <<slope, intercept>>
linregress(x, y) ==
    LET ssxm == Mean(SeqMul(Centered(x), Centered(x)))
        ssxym == Mean(SeqMul(Centered(x), Centered(y)))
        slope == RDiv(ssxym, ssxm)
    IN  <<slope, RSub(Mean(y), RMul(slope, Mean(x)))>>

timeStamps(run) == Slice(unixTimeBuff, run.startIdx, run.endIdx)

data(run) == Slice(dsLevelBuff, run.startIdx, run.endIdx)

\* can run.process() run without raising
canProcess(run) == timeStamps(run) # <<>>

process(run) ==
    LET fit == linregress(timeStamps(run), data(run))
    IN  [run EXCEPT !.slope = fit[1], !.intercept = fit[2]]

\* the runs after the loop "for run in self.dataRuns: run.process()", which
\* stops at the first run that raises
RECURSIVE processAll(_, _)
processAll(runs, k) ==
    IF k > Len(runs) \/ ~canProcess(runs[k]) THEN runs
    ELSE processAll([runs EXCEPT ![k] = process(runs[k])], k + 1)

allProcessed(runs) == \A k \in 1..Len(runs) : canProcess(runs[k])

(***************************************************************************)
(* numpy.polyfit(x, y, 1) as called by CalibDataSession.processRuns.       *)
(* An empty x raises TypeError.  The least-squares problem is solved by    *)
(* lstsq on the Vandermonde matrix with columns scaled to unit norm: nan   *)
(* or inf in it makes the SVD fail (LinAlgError); a rank-deficient matrix  *)
(* (all x equal) gives the minimum-norm solution with a RankWarning.       *)
(* The result is <<status, slope, intercept>>.                             *)
(***************************************************************************)
allFinite(x) == \A k \in 1..Len(x) : IsFinite(x[k])

allEqual(x) == \A k \in 1..Len(x) : x[k] = x[1]

polyfit(x, y) ==
    IF Len(x) = 0 THEN <<"TypeError", None, None>>
    ELSE IF ~allFinite(x) \/ ~allFinite(y) THEN <<"LinAlgError", None, None>>
    ELSE IF allEqual(x)
         THEN IF x[1] = I(0) THEN <<"LinAlgError", None, None>>
              ELSE <<"ok", RDiv(Mean(y), RMul(I(2), x[1])),
                     RDiv(Mean(y), I(2))>>
    ELSE LET fit == linregress(x, y)
         IN  <<"ok", fit[1], fit[2]>>

(***************************************************************************)
(* DataSession.runElecHeatLoads, CalibDataSession.adjustedRunSlopes,       *)
(* CalibDataSession.processRuns and Q0DataSession.processRuns.             *)
(***************************************************************************)
elecHeatLoadAct(run) == run.heatActDelta

runElecHeatLoads(runs) ==
    [k \in 1..Len(heaterRunIdxs) |-> elecHeatLoadAct(runs[heaterRunIdxs[k] + 1])]

calibAdjustedRunSlopes(runs) ==
    [k \in 1..Len(heaterRunIdxs) |-> runs[heaterRunIdxs[k] + 1].slope]

\* fault variant of calibHeatAdjustment: the x intercept itself is stored
calibHeatAdjustmentXIntercept(slope, yInt) == RDiv(RNeg(yInt), slope)

\* self._heatAdjustment = -xIntercept, with xIntercept = -yIntercept / slope
calibHeatAdjustment(slope, yInt) ==
    LET xIntercept == RDiv(RNeg(yInt), slope)
    IN  RNeg(xIntercept)

CalibProcessRuns ==
    /\ pc = "processRuns"
    /\ sessionType = "calib"
    /\ dataRuns' = processAll(dataRuns, 1)
    /\ IF ~allProcessed(dataRuns)
       THEN pc' = "raised" /\ outcome' = "ValueError" /\ UNCHANGED fitVars
       ELSE LET fit == polyfit(runElecHeatLoads(dataRuns'),
                               calibAdjustedRunSlopes(dataRuns'))
            IN  IF fit[1] # "ok"
                THEN pc' = "raised" /\ outcome' = fit[1] /\ UNCHANGED fitVars
                ELSE /\ calibSlope' = fit[2]
                     /\ yIntercept' = fit[3]
                     /\ heatAdjustment' = calibHeatAdjustment(fit[2], fit[3])
                     /\ pc' = "plot"
                     /\ outcome' = outcome
    /\ UNCHANGED <<container, refs, buffers, heaterRunIdxs, rfRunIdxs, idx, runStartIdx,
                   settleIdx, stderr, driver>>

Q0ProcessRuns ==
    /\ pc = "processRuns"
    /\ sessionType = "q0"
    /\ dataRuns' = processAll(dataRuns, 1)
    /\ IF ~allProcessed(dataRuns)
       THEN pc' = "raised" /\ outcome' = "ValueError"
       ELSE pc' = "plot" /\ outcome' = outcome
    /\ UNCHANGED <<container, refs, buffers, heaterRunIdxs, rfRunIdxs, idx, runStartIdx,
                   settleIdx, fitVars, stderr, driver>>

(***************************************************************************)
(* HeaterDataRun.heatAdjustment and elecHeatLoadActAdjusted,               *)
(* Q0DataSession.avgHeatAdjustment, RFDataRun.adjustedTotalHeatLoad and    *)
(* rfHeatLoad.                                                             *)
(***************************************************************************)
runHeatAdjustment(run) ==
    LET calcHeatLoad == RDiv(run.slope, calibSlope)
    IN  RSub(elecHeatLoadAct(run), calcHeatLoad)

\* fault variant of elecHeatLoadActAdjusted: the heat load is not shifted
elecHeatLoadActUnadjusted(run) == run.heatActDelta

elecHeatLoadActAdjusted(run) == RAdd(run.heatActDelta, heatAdjustment)

\* "if runAdjustment:" keeps the adjustments that are not 0 (nan is true)
keepsAdjustment(runAdjustment) == runAdjustment # I(0)

RECURSIVE keptAdjustments(_, _)
keptAdjustments(runs, k) ==
    IF k > Len(heaterRunIdxs) THEN <<>>
    ELSE LET runAdjustment == runHeatAdjustment(runs[heaterRunIdxs[k] + 1])
         IN  (IF keepsAdjustment(runAdjustment) THEN <<runAdjustment>>
              ELSE <<>>) \o keptAdjustments(runs, k + 1)

avgHeatAdjustment(runs) ==
    LET adjustments == keptAdjustments(runs, 1)
    IN  IF adjustments # <<>> THEN Mean(adjustments) ELSE I(0)

adjustedTotalHeatLoad(run, runs) ==
    RAdd(RDiv(run.slope, calibSlope), avgHeatAdjustment(runs))

rfHeatLoad(run, runs) ==
    RSub(adjustedTotalHeatLoad(run, runs), elecHeatLoadAct(run))

(***************************************************************************)
(* RFDataRun.calcQ0.  Q0 values are kept in units of 1e9 and the terms of  *)
(* the denominator in fixed point, units of 1e-12:                         *)
(*   (C7 / 2) * exp(C6 / 2) + C1 / uncorrectedQ0                           *)
(*                          - (C7 / tempFromPress) * exp(C6 / tempFromPress) *)
(* exp is tabulated in units of 1e-8 for the pressures of the model.       *)
(* numpy divides by zero without raising.                                  *)
(***************************************************************************)
\* round(n / d) for d > 0
RoundDiv(n, d) == (n \div d) + (IF 2 * (n % d) >= d THEN 1 ELSE 0)

\* ((grad * 1000000) ** 2) / (939.3 * rfHeatLoad), in units of 1e9
uncorrectedQ0(grad, rfHeatLoad0) ==
    RDiv(RMul(RMul(grad, grad), I(10000)), RMul(I(9393), rfHeatLoad0))

\* (avgPressure * 0.0125) + 1.705, in units of 1e-4 K
tempFromPress(avgPressure) == RoundDiv(125 * avgPressure.n, avgPressure.d) + 17050

\* exp(C6 / 2) = exp(-8.51), in units of 1e-8
expHalfC6 == 20144

\* exp(C6 / tempFromPress), in units of 1e-8, by pressure in Torr
expC6OverTemp(avgPressure) ==
    CASE avgPressure = I(16) -> 13178
      [] avgPressure = I(23) -> 19509
      [] avgPressure = I(24) -> 20576
      [] avgPressure = I(30) -> 27945

\* C7 = C2 - C3 * C4 + C5 * C4 ** 2 with C4 = grad - 0.7, in units of 1e-9
C7(grad) ==
    LET C4 == RSub(grad, Rat(7, 10))
        c == RAdd(RSub(I(72600), RMul(I(2140), C4)),
                  RMul(I(43), RMul(C4, C4)))
    IN  RoundDiv(c.n, c.d)

\* C1 / uncorrectedQ0, in units of 1e-12
c1OverUncorrected(grad, rfHeatLoad0) ==
    LET t == RDiv(I(271000), uncorrectedQ0(grad, rfHeatLoad0))
    IN  IF IsFinite(t) THEN I(RoundDiv(t.n, t.d)) ELSE t

calcQ0(grad, rfHeatLoad0, avgPressure) ==
    LET term1 == (C7(grad) * expHalfC6) \div 200000
        term3 == ((C7(grad) * expC6OverTemp(avgPressure))
                     \div tempFromPress(avgPressure)) \div 10
        denom == RAdd(I(term1 - term3), c1OverUncorrected(grad, rfHeatLoad0))
    IN  RDiv(I(271000), denom)

(***************************************************************************)
(* RFDataRun.q0: the run's Q0, the mean of calcQ0 over range(startIdx,     *)
(* endIdx); a gradient reading that is 0 or None is replaced by the        *)
(* reference gradient and counted.                                         *)
(***************************************************************************)
isInvalidGrad(archiveGrad) == IsNone(archiveGrad) \/ archiveGrad = I(0)

gradUsedAt(j) ==
    IF isInvalidGrad(At(gradBuff, j)) THEN refGradVal ELSE At(gradBuff, j)

RECURSIVE seqOver(_, _, _)
seqOver(lo, hi, f) ==
    IF lo > hi THEN <<>> ELSE <<f[lo]>> \o seqOver(lo + 1, hi, f)

q0(run, runs) ==
    LET lo == run.startIdx
        hi == run.endIdx - 1
        load == rfHeatLoad(run, runs)
        q0s == seqOver(lo, hi, [j \in lo..hi |->
                   calcQ0(gradUsedAt(j), load, At(dsPressBuff, j))])
    IN  [run EXCEPT
           !.calculatedQ0 = Mean(q0s),
           !.numInvalidGrads =
               Cardinality({j \in lo..hi : isInvalidGrad(At(gradBuff, j))}),
           !.gradsUsed = seqOver(lo, hi, [j \in lo..hi |-> gradUsedAt(j)])]

(***************************************************************************)
(* plotAndFitData: plotting each run evaluates run.label, which for an RF  *)
(* run evaluates run.q0.  In a calibration session gradBuff is empty, so   *)
(* the q0 of an RF run raises IndexError; so does, in a q0 session, reading *)
(* the pressure of a file without pressure column.  q0 computes the value  *)
(* unless the run holds one already ("if not self._calculatedQ0"), and     *)
(* writes one message per run that had invalid gradients.                  *)
(***************************************************************************)
CalibPlotAndFitData ==
    /\ pc = "plot"
    /\ sessionType = "calib"
    /\ IF rfRunIdxs # <<>>
       THEN pc' = "raised" /\ outcome' = "IndexError"
       ELSE pc' = "done" /\ outcome' = "done"
    /\ UNCHANGED <<container, refs, buffers, runVars, idx, runStartIdx, settleIdx,
                   fitVars, stderr, driver>>

\* does evaluating run.q0 compute the value
computesQ0(run) ==
    /\ run.kind = "rf"
    /\ IsNone(run.calculatedQ0) \/ run.calculatedQ0 = I(0)

\* can q0 read the gradient and the pressure of every sample of its loop
q0Reads(run) ==
    \A j \in run.startIdx .. (run.endIdx - 1) :
        j < Len(gradBuff) /\ j < Len(dsPressBuff)

\* "Gradient buffer had NUM invalid points ...", for run k and after it
RECURSIVE gradMessages(_, _)
gradMessages(runs, k) ==
    IF k > Len(runs) THEN <<>>
    ELSE (IF computesQ0(dataRuns[k]) /\ runs[k].numInvalidGrads # 0
          THEN <<[msg |-> "Gradient buffer had invalid points",
                  num |-> runs[k].numInvalidGrads]>>
          ELSE <<>>) \o gradMessages(runs, k + 1)

Q0PlotAndFitData ==
    /\ pc = "plot"
    /\ sessionType = "q0"
    /\ IF \E k \in 1..Len(dataRuns) :
              computesQ0(dataRuns[k]) /\ ~q0Reads(dataRuns[k])
       THEN /\ pc' = "raised"
            /\ outcome' = "IndexError"
            /\ UNCHANGED <<dataRuns, stderr>>
       ELSE /\ dataRuns' = [k \in 1..Len(dataRuns) |->
                               IF computesQ0(dataRuns[k])
                               THEN q0(dataRuns[k], dataRuns)
                               ELSE dataRuns[k]]
            /\ stderr' = stderr \o gradMessages(dataRuns', 1)
            /\ pc' = "done"
            /\ outcome' = "done"
    /\ UNCHANGED <<container, refs, buffers, heaterRunIdxs, rfRunIdxs, idx, runStartIdx,
                   settleIdx, fitVars, driver>>

(***************************************************************************)
(* parseInputFile (src/calculateQ0.py): the loop over the sessions of a    *)
(* batch.  The session is created, which runs processData, and processData *)
(* is called on it again.  An exception of a calibration session leaves    *)
(* the loop; so does an exception of a q0 session, except ValueError,      *)
(* which is caught and dropped.  printReport and updateCalibCurve are not  *)
(* modelled.                                                               *)
(***************************************************************************)
\* does the exception leave parseInputFile
propagates == ~(sessionType = "q0" /\ outcome = "ValueError")

\* the state of the next session of the batch when its __init__ calls
\* processData
startSession(type, file, slope) ==
    /\ sessionType' = type
    /\ csvHeader' = AllColumns
    /\ csvRows' = file
    /\ refGradVal' \in IF type = "q0" THEN RefGradSet ELSE {None}
    /\ unixTimeBuff' = <<>> /\ valvePosBuff' = <<>> /\ dsLevelBuff' = <<>>
    /\ gradBuff' = <<>> /\ dsPressBuff' = <<>>
    /\ elecHeatDesBuff' = <<>> /\ elecHeatActBuff' = <<>>
    /\ dataRuns' = <<>> /\ heaterRunIdxs' = <<>> /\ rfRunIdxs' = <<>>
    /\ idx' = 0 /\ runStartIdx' = 0 /\ settleIdx' = 0
    /\ calibSlope' = slope
    /\ yIntercept' = None
    /\ heatAdjustment' = None
    /\ pc' = "parse"
    /\ outcome' = "running"
    /\ stderr' = <<>>
    /\ calls' = 1
    /\ UNCHANGED <<refValvePos, refHeatLoad, container>>

parseInputFile ==
    /\ batchStatus = "running"
    /\ pc = "raised" \/ (pc = "done" /\ calls = 2)
    /\ IF pc = "raised" /\ propagates
       THEN /\ batchStatus' = "aborted"
            /\ UNCHANGED <<container, refs, buffers, runVars, idx, runStartIdx,
                           settleIdx, fitVars, pc, outcome, stderr, calls,
                           batchPos, batchLog>>
       ELSE IF batchPos = MaxSessions
       THEN /\ batchStatus' = "finished"
            /\ UNCHANGED <<container, refs, buffers, runVars, idx, runStartIdx,
                           settleIdx, fitVars, pc, outcome, stderr, calls,
                           batchPos, batchLog>>
       ELSE /\ batchPos' = batchPos + 1
            /\ batchLog' = Append(batchLog, outcome)
            /\ batchStatus' = batchStatus
            /\ \E type \in {"calib", "q0"} :
                   \E file \in PlainFiles(type, refValvePos) :
                       \E slope \in IF type = "q0" THEN CalibSlopeSet
                                     ELSE {None} :
                           startSession(type, file, slope)

(***************************************************************************)
(* The session: __init__ runs processData, which is the sequence           *)
(* parseDataFromCSV, populateRuns, the check for runs, adjustForSettle,    *)
(* processRuns, plotAndFitData.  In a batch, parseInputFile calls          *)
(* processData on the session again and goes on to the next session.       *)
(***************************************************************************)
Next ==
    \/ parseDataFromCSV
    \/ CalibPopulateRuns
    \/ Q0PopulateRuns
    \/ CheckRuns
    \/ adjustForSettle
    \/ CalibProcessRuns
    \/ Q0ProcessRuns
    \/ CalibPlotAndFitData
    \/ Q0PlotAndFitData
    \/ processDataAgain
    \/ parseInputFile

Spec == Init /\ [][Next]_vars

(***************************************************************************)
(* Properties.                                                             *)
(***************************************************************************)
\* the run list still holds the runs as populateRuns emitted them
segmenting == pc \in {"populate", "checkRuns"}

nSamples == Len(elecHeatDesBuff)

runIndices == 1..Len(dataRuns)

\* C1: every run emitted by segmentation lasts at least MIN_RUN_DURATION
\* between its own first and last sample:
\* unixT[endIdx] - unixT[startIdx] >= 900.
C1_MinDurationOwnSamples ==
    segmenting =>
        \A k \in runIndices :
            RLe(I(MIN_RUN_DURATION),
                runDuration(dataRuns[k].endIdx, dataRuns[k].startIdx))

\* sample i is inside every band: level not below the minimum, valve within
\* its tolerance of the reference, heater readback within its tolerance of
\* the setpoint
stableSample(i) ==
    /\ ~RLt(At(dsLevelBuff, i), I(MIN_DS_LL))
    /\ RLe(RAbs(RSub(At(valvePosBuff, i), refValvePos)),
           I(VALVE_POSITION_TOLERANCE))
    /\ RLe(RAbs(RSub(At(elecHeatDesBuff, i), At(elecHeatActBuff, i))),
           I(HEATER_TOLERANCE))

\* C2: every sample of an emitted run, the start sample included, is inside
\* the level, valve and heater bands.
C2_RunIsStable ==
    segmenting =>
        \A k \in runIndices :
            \A i \in dataRuns[k].startIdx .. dataRuns[k].endIdx :
                stableSample(i)

\* all samples of the run have the setpoint of the run's first sample
uniformSetpoint(run) ==
    \A i \in (run.startIdx + 1) .. run.endIdx :
        REq(At(elecHeatDesBuff, i), At(elecHeatDesBuff, i - 1))

\* the iteration of populateRuns at index i finds every column it reads
iterationReads(i) ==
    IF sessionType = "q0" THEN q0Readable(i) ELSE calibReadable(i)

\* C3: an iteration of populateRuns at an index i > 0 where elecHeatDes
\* changed starts the next candidate run at i and any run it adds ends at
\* i - 1, whatever the other signals are; and no run ever contains two
\* samples with different elecHeatDes.
C3_HeaterChangeIsBoundary ==
    [][/\ (/\ pc = "populate" /\ idx > 0 /\ heaterChanged(idx)
           /\ iterationReads(idx)) =>
              /\ runStartIdx' = idx
              /\ \A k \in (Len(dataRuns) + 1)..Len(dataRuns') :
                     dataRuns'[k].endIdx = idx - 1
       /\ \A k \in 1..Len(dataRuns') :
              \A i \in (dataRuns'[k].startIdx + 1) .. dataRuns'[k].endIdx :
                  REq(At(elecHeatDesBuff', i), At(elecHeatDesBuff', i - 1))]_vars

\* a run was closed right before a setpoint change at a sample that is
\* stable in every other respect and is not the last one
C3_Witness ==
    /\ pc = "checkRuns"
    /\ \E k \in runIndices :
           LET i == dataRuns[k].endIdx + 1
           IN  /\ i < nSamples - 1
               /\ heaterChanged(i)
               /\ stableSample(i)
               /\ dataRuns[k].endIdx > dataRuns[k].startIdx
               /\ uniformSetpoint(dataRuns[k])

occurrences(s, v) == Cardinality({j \in 1..Len(s) : s[j] = v})

\* C4: a run is a heater run exactly if elecHeatDes at the start index found
\* by segmentation differs from refHeatLoad, otherwise an RF run; its index
\* is recorded once, in heaterRunIdxs for a heater run and in rfRunIdxs for
\* an RF run.
C4_Classification ==
    \A k \in runIndices :
        LET run == dataRuns[k]
            isHeater == run.kind = "heater"
        IN  /\ run.kind \in {"heater", "rf"}
            /\ segmenting =>
                   (isHeater <=>
                        ~REq(At(elecHeatDesBuff, run.startIdx), refHeatLoad))
            /\ isHeater <=> ~REq(run.elecHeatLoadDes, I(0))
            /\ occurrences(heaterRunIdxs, k - 1) = (IF isHeater THEN 1 ELSE 0)
            /\ occurrences(rfRunIdxs, k - 1) = (IF isHeater THEN 0 ELSE 1)

\* segmentation has produced a heater run and an RF run
C4_Witness ==
    /\ pc = "checkRuns"
    /\ heaterRunIdxs # <<>>
    /\ rfRunIdxs # <<>>

\* C5: when segmentation has produced no run, processData returns with the
\* "no runs" outcome, without an exception and without trimming or fitting
\* anything.
C5_NoRunsOutcome ==
    [][(pc = "checkRuns" /\ dataRuns = <<>>) =>
           /\ pc' = "done"
           /\ outcome' = "noRuns"
           /\ settleIdx' = 0
           /\ UNCHANGED <<buffers, runVars, fitVars>>
           /\ yIntercept' = None
           /\ heatAdjustment' = None]_vars

\* a file with samples was segmented into no run and processData returned
C5_Witness ==
    /\ pc = "done"
    /\ outcome = "noRuns"
    /\ nSamples > 1
    /\ dataRuns = <<>>

\* the calibration session has fitted its calibration curve
calibFitted == sessionType = "calib" /\ ~IsNone(yIntercept)

heaterRuns == [k \in 1..Len(heaterRunIdxs) |-> dataRuns[heaterRunIdxs[k] + 1]]

rfRuns == [k \in 1..Len(rfRunIdxs) |-> dataRuns[rfRunIdxs[k] + 1]]

\* C6 as the specification states it: after the fit of a calibration session
\* with a nonzero calibSlope, heatAdjustment = -yIntercept / calibSlope.
C6_Original ==
    (calibFitted /\ calibSlope # I(0)) =>
        heatAdjustment = RDiv(RNeg(yIntercept), calibSlope)

\* C6: after the fit of a calibration session, heatAdjustment is the
\* negative of the x intercept of the fitted line, yIntercept / calibSlope;
\* for a nonzero calibSlope, calibSlope * heatAdjustment - yIntercept = 0.
C6_HeatAdjustmentIsNegXIntercept ==
    calibFitted =>
        /\ heatAdjustment = RDiv(yIntercept, calibSlope)
        /\ calibSlope # I(0) =>
               RSub(RMul(calibSlope, heatAdjustment), yIntercept) = I(0)

\* a calibration session fitted a line with a nonzero slope and a nonzero
\* intercept
C6_Witness ==
    /\ calibFitted
    /\ pc = "plot"
    /\ calibSlope # I(0)
    /\ yIntercept # I(0)
    /\ IsFinite(heatAdjustment)
    /\ heatAdjustment # I(0)

q0Computed == sessionType = "q0" /\ pc = "done" /\ outcome = "done"

\* the arithmetic mean, over all heater runs of the session, of
\* elecHeatLoadAct - slope / calibSlope; 0 without heater runs
meanHeatAdjustment ==
    IF heaterRuns = <<>> THEN I(0)
    ELSE Mean([k \in 1..Len(heaterRuns) |-> runHeatAdjustment(heaterRuns[k])])

\* C8: for every RF run of a measurement session, adjustedTotalHeatLoad =
\* slope / calibSlope + the mean heat adjustment over all heater runs of the
\* session (0 without heater runs), and rfHeatLoad = adjustedTotalHeatLoad -
\* elecHeatLoadAct.
C8_TotalHeatLoad ==
    q0Computed =>
        \A k \in 1..Len(rfRuns) :
            LET run == rfRuns[k]
                total == adjustedTotalHeatLoad(run, dataRuns)
            IN  /\ total = RAdd(RDiv(run.slope, calibSlope), meanHeatAdjustment)
                /\ rfHeatLoad(run, dataRuns) = RSub(total, elecHeatLoadAct(run))

\* the samples of the run, startIdx .. endIdx, with an invalid gradient
invalidGradSamples(run) ==
    {j \in run.startIdx .. run.endIdx : isInvalidGrad(At(gradBuff, j))}

\* C9: for every RF run the Q0 computation ends without failing, every
\* sample of the run with an invalid gradient (0 or missing) is computed
\* with refGradVal, and numInvalidGrads is the number of such samples of the
\* run.
C9_GradientFallback ==
    q0Computed =>
        \A k \in 1..Len(rfRuns) :
            LET run == rfRuns[k]
            IN  /\ ~IsNone(run.calculatedQ0)
                /\ run.numInvalidGrads = Cardinality(invalidGradSamples(run))
                /\ \A j \in invalidGradSamples(run) :
                       /\ (j - run.startIdx + 1) \in DOMAIN run.gradsUsed
                       /\ run.gradsUsed[j - run.startIdx + 1] = refGradVal

\* C10: an RF run whose rfHeatLoad is 0 or negative gets a Q0 without an
\* exception, and that Q0 is marked invalid: it is not an ordinary finite
\* number.
C10_NonPositiveLoadMarkedInvalid ==
    q0Computed =>
        \A k \in 1..Len(rfRuns) :
            LET run == rfRuns[k]
            IN  (run.gradsUsed # <<>> /\ RLe(rfHeatLoad(run, dataRuns), I(0))) =>
                    /\ ~IsNone(run.calculatedQ0)
                    /\ ~IsFinite(run.calculatedQ0)

\* C11: a calibration session with fewer than 2 heater runs never gets a
\* calibSlope or a heatAdjustment: the fit of the calibration curve, when
\* processData reaches it, ends in an exception.
C11_TooFewHeaterRunsIsFatal ==
    (sessionType = "calib" /\ Len(heaterRunIdxs) < 2) =>
        /\ IsNone(calibSlope)
        /\ IsNone(heatAdjustment)
        /\ pc # "plot"
        /\ pc = "done" => outcome = "noRuns"

\* C12: a run that settle trimming has left with fewer than 2 samples to
\* fit gets no slope, and processData does not get past processRuns: it
\* ends in an exception.
C12_ShortRunIsFatal ==
    calls = 1 =>
        \A k \in runIndices :
            Len(timeStamps(dataRuns[k])) < 2 =>
                /\ IsNone(dataRuns[k].slope)
                /\ pc # "plot"
                /\ pc = "done" => outcome = "noRuns"

\* the columns the session needs and the header of its file lacks
missingColumns == linkedColumns(sessionType) \ csvHeader

\* C13: a session on a file that lacks a column it needs never gets a run
\* list and never ends with the "no runs" outcome or normally: processData
\* ends in an exception.
C13_MissingColumnIsFatal ==
    missingColumns # {} =>
        /\ dataRuns = <<>>
        /\ outcome \notin {"noRuns", "done"}
        /\ pc # "done"

\* the buffer a column is linked to
bufferOf(f) ==
    CASE f = "valve" -> valvePosBuff
      [] f = "lvl" -> dsLevelBuff
      [] f = "des" -> elecHeatDesBuff
      [] f = "act" -> elecHeatActBuff
      [] f = "grad" -> gradBuff
      [] f = "press" -> dsPressBuff

\* the field of column f in the row that entry i (from 1) of a buffer was
\* parsed from: every processData call parses the rows of the file again
fieldOf(f, i) == csvRows[((i - 1) % Len(csvRows)) + 1][f]

\* C14: after parsing, unixTimeBuff has one entry per row parsed, and every
\* buffer whose column the file has is as long as unixTimeBuff and holds at
\* each position the value of the row's field, or None where the field is
\* unparseable.
C14_BuffersAligned ==
    ("t" \in csvHeader /\ pc # "parse") =>
        /\ Len(unixTimeBuff) = calls * Len(csvRows)
        /\ \A f \in linkedColumns(sessionType) \cap csvHeader :
               /\ Len(bufferOf(f)) = Len(unixTimeBuff)
               /\ \A i \in 1..Len(unixTimeBuff) :
                      bufferOf(f)[i] = (IF fieldOf(f, i) = Unparseable THEN None
                                        ELSE fieldOf(f, i))

\* a file with an unparseable gradient followed, in the same row and in the
\* next row, by fields that parse has been parsed
C14_Witness ==
    /\ pc = "populate"
    /\ sessionType = "q0"
    /\ \E i \in 1..(Len(csvRows) - 1) :
           /\ csvRows[i]["grad"] = Unparseable
           /\ IsNone(gradBuff[i])
           /\ IsFinite(dsPressBuff[i])
           /\ IsFinite(gradBuff[i + 1])

\* the least-squares line through the samples startIdx .. endIdx of the
\* run, the sample at endIdx included
inclusiveFit(run) ==
    linregress(Slice(unixTimeBuff, run.startIdx, run.endIdx + 1),
               Slice(dsLevelBuff, run.startIdx, run.endIdx + 1))

\* C15: endIdx is an inclusive bound: the slope and intercept of a fitted
\* run are those of the regression over the samples startIdx .. endIdx, and
\* the Q0 of an RF run is averaged over one value per sample of
\* startIdx .. endIdx.
C15_EndIdxInclusive ==
    calls = 1 =>
        \A k \in runIndices :
            LET run == dataRuns[k]
            IN  /\ ~IsNone(run.slope) =>
                       /\ run.slope = inclusiveFit(run)[1]
                       /\ run.intercept = inclusiveFit(run)[2]
                /\ ~IsNone(run.calculatedQ0) =>
                       Len(run.gradsUsed) = run.endIdx - run.startIdx + 1

\* the bounds and the kind of the runs of a run list
runShape(runs) ==
    [k \in 1..Len(runs) |-> <<runs[k].startIdx, runs[k].endIdx, runs[k].kind>>]

\* C16: no step taken on a session whose processData has returned, a second
\* processData call included, changes its buffers, the count, bounds and
\* kinds of its runs or, for a calibration session, its calibSlope and
\* heatAdjustment.
C16_ImmutableAfterProcessData ==
    [][(pc = "done" /\ batchPos' = batchPos) =>
           /\ buffers' = buffers
           /\ runShape(dataRuns') = runShape(dataRuns)
           /\ sessionType = "calib" =>
                  calibSlope' = calibSlope /\ heatAdjustment' = heatAdjustment]_vars

\* C17: an exception of one session of a batch does not end the batch
\* while other sessions are still to be processed.
C17_BatchGoesOn == ~(batchStatus = "aborted" /\ batchPos < MaxSessions)

\* the number of messages of one kind the session has written
messageCount(m) == Cardinality({i \in 1..Len(stderr) : stderr[i].msg = m})

\* C18: the invalid values of a session are reported in aggregate: parsing
\* writes at most one message for the unparseable fields of the file, and
\* the Q0 computation at most one message per RF run for its invalid
\* gradients.
C18_AggregatedWarnings ==
    calls = 1 =>
        /\ messageCount("Could not fill buffer") <= 1
        /\ messageCount("Gradient buffer had invalid points") <= Len(rfRunIdxs)

\* RF heat loads, W
LoadSet == {Rat(1, 20), I(1), I(4)}

\* C19: at the gradient and pressure of every sample that the Q0 of an RF
\* run was computed from, calcQ0 is strictly decreasing in rfHeatLoad over
\* positive heat loads.
C19_Q0DecreasesWithLoad ==
    q0Computed =>
        \A k \in 1..Len(rfRuns) :
            \A j \in rfRuns[k].startIdx .. (rfRuns[k].endIdx - 1) :
                \A r1, r2 \in LoadSet :
                    RLt(r1, r2) =>
                        RLt(calcQ0(gradUsedAt(j), r2, At(dsPressBuff, j)),
                            calcQ0(gradUsedAt(j), r1, At(dsPressBuff, j)))

\* a break condition of the session's populateRuns fires at index i
breakFires(i) ==
    isEndOfCalibRun(i) \/ (sessionType = "q0" /\ gradChanged(i))

\* the step appends exactly the run [s, e] to the run list
emitsRun(s, e) ==
    /\ Len(dataRuns') = Len(dataRuns) + 1
    /\ SubSeq(dataRuns', 1, Len(dataRuns)) = dataRuns
    /\ dataRuns'[Len(dataRuns')].startIdx = s
    /\ dataRuns'[Len(dataRuns')].endIdx = e

\* C20: an iteration of populateRuns at index i with run start s where a
\* break condition fires adds the run [s, i - 1] if and only if
\* unixT[i] - unixT[s] >= 900 s (elapsed time, not the number of samples),
\* and the next candidate run starts at i either way; an iteration where no
\* condition fires leaves the run start and the run list as they are.
C20_FlushByElapsedTime ==
    [][(pc = "populate" /\ iterationReads(idx)) =>
           IF breakFires(idx)
           THEN /\ runStartIdx' = idx
                /\ IF RLe(I(900), RSub(At(unixTimeBuff, idx),
                                       At(unixTimeBuff, runStartIdx)))
                   THEN emitsRun(runStartIdx, idx - 1)
                   ELSE dataRuns' = dataRuns
           ELSE runStartIdx' = runStartIdx /\ dataRuns' = dataRuns]_vars

\* a three-sample file segmented to the end: the break at index 0 added
\* nothing (0 s elapsed), index 1 fired no condition, and the break at
\* index 2 added the run [0, 1], 900 s or more after the run's start
C20_Witness ==
    /\ pc = "checkRuns"
    /\ nSamples = 3
    /\ iterationReads(2)
    /\ breakFires(0) /\ ~breakFires(1) /\ breakFires(2)
    /\ RLe(I(900), RSub(At(unixTimeBuff, 2), At(unixTimeBuff, 0)))
    /\ Len(dataRuns) = 1
    /\ dataRuns[1].startIdx = 0 /\ dataRuns[1].endIdx = 1
    /\ runStartIdx = 2

\* the indices j from start on with unixT[j] - unixT[start] >= cutoff
settledFrom(start, cutoff) ==
    {j \in start..(Len(unixTimeBuff) - 1) :
        RLe(cutoff, RSub(At(unixTimeBuff, j), At(unixTimeBuff, start)))}

\* C21: a step of adjustForSettle on a run that starts at s, with the
\* cutoff it records for the run, sets the run's startIdx to the smallest
\* index j >= s with unixT[j] - unixT[s] >= cutoff (when the buffer has no
\* such index the step raises and leaves startIdx at s); startIdx never
\* decreases, and stays s when the cutoff is <= 0.
C21_SettleTrim ==
    [][(pc = "settle" /\ settleIdx < Len(dataRuns)) =>
           LET k == settleIdx + 1
               s == dataRuns[k].startIdx
               cutoff == dataRuns'[k].cutoff
               reached == settledFrom(s, cutoff)
           IN  /\ dataRuns'[k].startIdx >= s
               /\ RLe(cutoff, I(0)) => dataRuns'[k].startIdx = s
               /\ IF reached = {}
                  THEN dataRuns'[k].startIdx = s /\ outcome' = "IndexError"
                  ELSE /\ dataRuns'[k].startIdx \in reached
                       /\ \A j \in reached : dataRuns'[k].startIdx <= j]_vars

\* every run of the session was trimmed: one with a cutoff of 0 kept its
\* start, another with a positive cutoff starts at a later sample that is
\* the first one at least cutoff seconds after the sample before it
C21_Witness ==
    /\ pc = "processRuns"
    /\ \E k \in runIndices : dataRuns[k].cutoff = I(0)
    /\ \E k \in runIndices :
           /\ RLt(I(0), dataRuns[k].cutoff)
           /\ dataRuns[k].startIdx > 0
           /\ dataRuns[k].startIdx <= dataRuns[k].endIdx
           /\ RLe(dataRuns[k].cutoff,
                  RSub(At(unixTimeBuff, dataRuns[k].startIdx),
                       At(unixTimeBuff, dataRuns[k].startIdx - 1)))

\* the index where segmentation started the run: the last index up to the
\* run's end where a break fired, 0 when there is none
originalStart(run) ==
    LET breaks == {b \in 0..run.endIdx : breakFires(b)}
    IN  IF breaks = {} THEN 0
        ELSE CHOOSE b \in breaks : \A c \in breaks : c <= b

\* the heat delta of a run that starts at start, after a run that started
\* at prevStart
heatDeltaAfter(start, prevStart) ==
    LET elecHeatDelta == RSub(At(elecHeatDesBuff, start),
                              At(elecHeatDesBuff, prevStart))
        gradHeatDelta == RSub(approxHeatFromGrad(At(gradBuff, start)),
                              approxHeatFromGrad(At(gradBuff, prevStart)))
    IN  IF sessionType = "q0" THEN RAbs(RAdd(elecHeatDelta, gradHeatDelta))
        ELSE RAbs(elecHeatDelta)

\* C22: the cutoff of every run after the first is computed from the heat
\* delta between the run's start and the index where segmentation started
\* the previous run, not the previous run's start after trimming.
C22_CutoffFromOriginalPrevStart ==
    [][(/\ pc = "settle" /\ calls = 1
        /\ settleIdx >= 1 /\ settleIdx < Len(dataRuns)) =>
           LET run == dataRuns[settleIdx + 1]
               prev == dataRuns[settleIdx]
           IN  dataRuns'[settleIdx + 1].cutoff =
                   I(settleCutoff(heatDeltaAfter(run.startIdx,
                                                 originalStart(prev))))]_vars

\* heat deltas, W
HeatDeltaSet == {I(0), Rat(1, 50), Rat(3, 100), I(2), Rat(135, 16)}

\* the heat deltas >= 0 to compute a cutoff from: those of HeatDeltaSet and
\* the one of the run that adjustForSettle is about to trim
heatDeltasAtHand ==
    {h \in HeatDeltaSet \cup
           (IF pc = "settle" /\ settleIdx < Len(dataRuns)
            THEN {getTotalHeatDelta(dataRuns[settleIdx + 1].startIdx,
                                    settleIdx)}
            ELSE {}) : RLe(I(0), h)}

\* the fractional part of heatDelta * 25 is below one half
truncatesLessThanHalf(h) ==
    RLt(RSub(RMul(h, I(25)), I(settleCutoff(h))), Rat(1, 2))

\* C23 as stated: the cutoff of twice a heat delta is exactly twice the
\* cutoff of the heat delta.
C23_Original ==
    \A h \in heatDeltasAtHand :
        settleCutoff(RMul(I(2), h)) = 2 * settleCutoff(h)

\* C23: int(heatDelta * 25) truncates, so the cutoff is linear in the heat
\* delta up to the truncation: the cutoff of twice a heat delta h >= 0 is
\* twice the cutoff of h when the fractional part of 25 h is below 1/2, and
\* one more than twice the cutoff of h otherwise.
C23_CutoffDoubling ==
    \A h \in heatDeltasAtHand :
        settleCutoff(RMul(I(2), h)) =
            IF truncatesLessThanHalf(h) THEN 2 * settleCutoff(h)
            ELSE 2 * settleCutoff(h) + 1

\* the first run of a session was trimmed with a cutoff that truncated a
\* fractional part of at least one half
C23_Witness ==
    /\ pc \in {"settle", "processRuns"}
    /\ settleIdx >= 1
    /\ calls = 1
    /\ LET h == getTotalHeatDelta(originalStart(dataRuns[1]), 0)
       IN  /\ RLt(I(0), h)
           /\ ~truncatesLessThanHalf(h)
           /\ dataRuns[1].cutoff = I(settleCutoff(h))
           /\ settleCutoff(RMul(I(2), h)) = 2 * settleCutoff(h) + 1

\* |elecHeatDes[i] - elecHeatAct[i]|
heaterDeviation(i) ==
    RAbs(RSub(At(elecHeatDesBuff, i), At(elecHeatActBuff, i)))

\* a break condition other than the heater readback's fires at index i
otherBreakFires(i) ==
    \/ heaterChanged(i) \/ liqLevelTooLow(i) \/ valveOutsideTol(i)
    \/ isLastElement(i)
    \/ (sessionType = "q0" /\ gradChanged(i))

\* C24: at an index i > 0 where no other condition fires, the iteration of
\* populateRuns ends the run (the next candidate run starts at i) if and
\* only if |elecHeatDes[i] - elecHeatAct[i]| > 1 W; a deviation of exactly
\* 1 W does not end the run.
C24_HeaterBreakAboveTolerance ==
    [][(/\ pc = "populate" /\ idx > 0 /\ iterationReads(idx)
        /\ ~otherBreakFires(idx)) =>
           (runStartIdx' = idx <=>
                RLt(I(HEATER_TOLERANCE), heaterDeviation(idx)))]_vars

\* the gradient readings at i - 1 and i are numbers more than the tolerance
\* apart
gradStepAt(buff, i) ==
    /\ ~IsNone(At(buff, i)) /\ ~IsNone(At(buff, i - 1))
    /\ RLt(GRAD_TOLERANCE, RAbs(RSub(At(buff, i), At(buff, i - 1))))

\* the gradient column of the file, as parsed
csvGrad == Column(csvRows, "grad")

\* C25: in a Q0 session an iteration of populateRuns at an index i > 0
\* whose gradient is more than 0.7 MV/m away from the one at i - 1 starts
\* the next candidate run at i, and no run holds two consecutive gradient
\* readings further apart; in a calibration session the gradient column is
\* not read, and a step in it alone does not end the run.
C25_GradientBreakInQ0Only ==
    [][/\ (/\ pc = "populate" /\ sessionType = "q0" /\ idx > 0
           /\ iterationReads(idx) /\ gradStepAt(gradBuff, idx)) =>
              runStartIdx' = idx
       /\ sessionType = "q0" =>
              \A k \in 1..Len(dataRuns') :
                  \A i \in (dataRuns'[k].startIdx + 1) .. dataRuns'[k].endIdx :
                      i < Len(gradBuff') => ~gradStepAt(gradBuff', i)
       /\ sessionType = "calib" => gradBuff' = <<>>
       /\ (/\ pc = "populate" /\ sessionType = "calib"
           /\ idx > 0 /\ idx < Len(csvRows)
           /\ iterationReads(idx) /\ gradStepAt(csvGrad, idx)
           /\ ~isEndOfCalibRun(idx)) =>
              runStartIdx' = runStartIdx /\ dataRuns' = dataRuns]_vars

\* a Q0 session segmented to the end: a run was closed right before a
\* gradient step at a sample where no other break condition fires
C25_Witness ==
    /\ pc = "checkRuns"
    /\ sessionType = "q0"
    /\ \E k \in runIndices :
           LET i == dataRuns[k].endIdx + 1
           IN  /\ dataRuns[k].endIdx >= dataRuns[k].startIdx
               /\ i < Len(gradBuff)
               /\ gradStepAt(gradBuff, i)
               /\ ~isEndOfCalibRun(i)

\* C26: once the runs are trimmed, the heat load of every run is the mean
\* of elecHeatAct over the run's samples startIdx..endIdx minus
\* elecHeatAct[0].
C26_HeatLoadOverTrimmedRun ==
    (pc = "processRuns" /\ calls = 1) =>
        \A k \in runIndices :
            dataRuns[k].startIdx <= dataRuns[k].endIdx =>
                dataRuns[k].heatActDelta =
                    RSub(Mean(Slice(elecHeatActBuff, dataRuns[k].startIdx,
                                    dataRuns[k].endIdx + 1)),
                         At(elecHeatActBuff, 0))

\* C27: a step of adjustForSettle on a run ends normally and leaves the
\* run's start between its original start and the run's end: it does not
\* raise IndexError and does not move the start past endIdx.
C27_TrimStaysInsideRun ==
    [][(pc = "settle" /\ settleIdx < Len(dataRuns) /\ calls = 1) =>
           LET k == settleIdx + 1
           IN  /\ outcome' # "IndexError"
               /\ dataRuns[k].startIdx <= dataRuns'[k].startIdx
               /\ dataRuns'[k].startIdx <= dataRuns[k].endIdx]_vars

\* C28: the iteration of populateRuns at the last index N - 1 always fires
\* a break: the next candidate run starts at N - 1 and the only run it can
\* add is [runStart, N - 2]; so no run ever ends after index N - 2, and the
\* last sample belongs to no run.
C28_LastSampleClosesRun ==
    [][/\ (/\ pc = "populate" /\ iterationReads(idx)
           /\ idx = Len(elecHeatDesBuff) - 1) =>
              /\ runStartIdx' = idx
              /\ dataRuns' = dataRuns \/ emitsRun(runStartIdx, idx - 1)
       /\ \A k \in 1..Len(dataRuns') :
              dataRuns'[k].endIdx <= Len(elecHeatDesBuff') - 2]_vars

\* a file segmented to the end whose last sample fired no other condition:
\* the run [runStart, N - 2] was added and the candidate run starts at N - 1
C28_Witness ==
    /\ pc = "checkRuns"
    /\ calls = 1
    /\ nSamples >= 2
    /\ dataRuns # <<>>
    /\ dataRuns[Len(dataRuns)].endIdx = nSamples - 2
    /\ runStartIdx = nSamples - 1
    /\ ~heaterChanged(nSamples - 1)
    /\ ~liqLevelTooLow(nSamples - 1)
    /\ ~valveOutsideTol(nSamples - 1)
    /\ ~heatersOutsideTol(nSamples - 1)
    /\ ~(sessionType = "q0" /\ gradChanged(nSamples - 1))

\* the timestamps never decrease from one sample to the next
nonDecreasingTime ==
    \A i \in 1..(Len(unixTimeBuff) - 1) :
        RLe(At(unixTimeBuff, i - 1), At(unixTimeBuff, i))

\* C29: when populateRuns has segmented a stream whose timestamps never
\* decrease, every run has 0 <= startIdx <= endIdx <= N - 1 and every run
\* ends before the next one in the list starts.
C29_RunsOrderedAndDisjoint ==
    (pc = "checkRuns" /\ nonDecreasingTime) =>
        /\ \A k \in runIndices :
               /\ 0 <= dataRuns[k].startIdx
               /\ dataRuns[k].startIdx <= dataRuns[k].endIdx
               /\ dataRuns[k].endIdx <= nSamples - 1
        /\ \A k \in 1..(Len(dataRuns) - 1) :
               dataRuns[k].endIdx < dataRuns[k + 1].startIdx

\* a stream with increasing timestamps was segmented into two runs or more
C29_Witness ==
    /\ pc = "checkRuns"
    /\ nonDecreasingTime
    /\ Len(dataRuns) >= 2
    /\ dataRuns[1].endIdx + 1 = dataRuns[2].startIdx

(***************************************************************************)
(* Container.addDataSession and the session hashes.  A Cryomodule stores   *)
(* calibration sessions, a Cavity Q0 sessions.  A session is represented   *)
(* by the arguments its constructor stores; its processData is the state   *)
(* machine above and is not followed here.                                 *)
(*                                                                         *)
(* Python's hash: the hash of a small int is the int, and so is the hash   *)
(* of a float with an integer value; the hash of a datetime and of None    *)
(* are numbers fixed for the process, given here by hashDatetime and       *)
(* hashNone; a session's hash is its __hash__.                             *)
(***************************************************************************)
\* a ^ b for naturals
RECURSIVE Xor(_, _)
Xor(a, b) ==
    IF a = 0 THEN b
    ELSE IF b = 0 THEN a
    ELSE 2 * Xor(a \div 2, b \div 2) + (((a % 2) + (b % 2)) % 2)

\* start and end times (datetimes, as hour numbers)
StartTimeSet == {1}

EndTimeSet == {3}

\* mySampler time intervals, s
SessionTimeIntSet == {2, 16}

\* reference valve positions of a call
CallValvePosSet == {I(20), I(22)}

\* reference heat loads of a call; None: not given
CallHeatLoadSet == {None, I(2)}

\* sums of the heater setpoint PVs that caget can return
HeaterPVSumSet == {I(6)}

\* reference gradients of a call to a Cavity
CallGradSet == {I(2), I(16)}

cryModNumSLAC == 12

cryModNumJLAB == 2

hashInt(k) == k

hashDatetime(t) == 64 + 32 * t

hashNone == 256

\* the hash of an integer-valued float, or of None
hashFloat(x) == IF x = None THEN hashNone ELSE hashInt(x.n)

\* DataSession.hash, given the hashes of calibSession and refGradVal
sessionHashOf(startTime, endTime, timeInt, slacNum, jlabNum, calibHash, gradHash) ==
    Xor(hashDatetime(startTime),
        Xor(hashDatetime(endTime),
            Xor(hashInt(timeInt),
                Xor(hashInt(slacNum),
                    Xor(hashInt(jlabNum), Xor(calibHash, gradHash))))))

\* DataSession.__hash__ of a calibration session: calibSession and
\* refGradVal default to None
calibSessionHash(session) ==
    sessionHashOf(session.startTime, session.endTime, session.timeInt,
                  cryModNumSLAC, cryModNumJLAB, hashNone, hashNone)

\* the calibration sessions a call to a Cavity can name
CalibSessionSet ==
    {[startTime |-> 1, endTime |-> 3, timeInt |-> 2,
      refValvePos |-> I(20), refHeatLoad |-> I(2),
      refGradVal |-> None, calibSession |-> None]}

\* Cryomodule.hash drops calibSession and refGradVal; Cavity.hash passes
\* them on
containerHash(type, startTime, endTime, timeInt, calibSession, gradVal) ==
    IF type = "calib"
    THEN sessionHashOf(startTime, endTime, timeInt, cryModNumSLAC,
                       cryModNumJLAB, hashNone, hashNone)
    ELSE sessionHashOf(startTime, endTime, timeInt, cryModNumSLAC,
                       cryModNumJLAB,
                       IF calibSession = None THEN hashNone
                       ELSE calibSessionHash(calibSession),
                       hashFloat(gradVal))

\* genDataSession: the session the container's class constructs
genDataSession(type, startTime, endTime, timeInt, valvePos, heatLoad, gradVal, calibSession) ==
    [startTime |-> startTime, endTime |-> endTime, timeInt |-> timeInt,
     refValvePos |-> valvePos, refHeatLoad |-> heatLoad,
     refGradVal |-> IF type = "q0" THEN gradVal ELSE None,
     calibSession |-> IF type = "q0" THEN calibSession ELSE None]

\* if not refHeatLoad: the sum of the heater setpoints read with caget
\* (None and 0 both count as not given)
effectiveHeatLoads(heatLoad) ==
    IF heatLoad = None \/ heatLoad = I(0) THEN HeaterPVSumSet ELSE {heatLoad}

addDataSession ==
    /\ pc = "container"
    /\ \E startTime \in StartTimeSet, endTime \in EndTimeSet,
          timeInt \in SessionTimeIntSet, valvePos \in CallValvePosSet,
          givenHeatLoad \in CallHeatLoadSet,
          gradVal \in IF sessionType = "q0" THEN CallGradSet ELSE {None},
          calibSession \in IF sessionType = "q0" THEN CalibSessionSet
                          ELSE {None} :
          \E heatLoad \in effectiveHeatLoads(givenHeatLoad) :
              \E sessionHash \in {containerHash(sessionType, startTime,
                                                endTime, timeInt, calibSession,
                                                gradVal)},
                 session \in {genDataSession(sessionType, startTime, endTime,
                                             timeInt, valvePos, heatLoad,
                                             gradVal, calibSession)} :
                  /\ \/ sessionHash \in DOMAIN dataSessions
                     \/ Cardinality(DOMAIN dataSessions) < MaxStored
                  /\ dataSessions' =
                         IF sessionHash \in DOMAIN dataSessions
                         THEN dataSessions
                         ELSE [h \in DOMAIN dataSessions \cup {sessionHash} |->
                                  IF h = sessionHash THEN session
                                  ELSE dataSessions[h]]
                  /\ returned' = dataSessions'[sessionHash]
                  /\ lastCall' = session
    /\ UNCHANGED <<refs, buffers, runVars, idx, runStartIdx, settleIdx,
                   fitVars, pc, outcome, stderr, driver>>

\* a container without sessions
InitContainer ==
    /\ sessionType \in {"calib", "q0"}
    /\ refValvePos = None /\ refHeatLoad = None /\ refGradVal = None
    /\ csvRows = <<>>
    /\ csvHeader = {}
    /\ stderr = <<>>
    /\ calls = 0
    /\ batchPos = 0
    /\ batchLog = <<>>
    /\ batchStatus = "none"
    /\ unixTimeBuff = <<>> /\ valvePosBuff = <<>> /\ dsLevelBuff = <<>>
    /\ gradBuff = <<>> /\ dsPressBuff = <<>>
    /\ elecHeatDesBuff = <<>> /\ elecHeatActBuff = <<>>
    /\ dataRuns = <<>> /\ heaterRunIdxs = <<>> /\ rfRunIdxs = <<>>
    /\ idx = 0 /\ runStartIdx = 0 /\ settleIdx = 0
    /\ calibSlope = None
    /\ yIntercept = None
    /\ heatAdjustment = None
    /\ pc = "container"
    /\ outcome = "running"
    /\ dataSessions = <<>>
    /\ lastCall = <<>>
    /\ returned = <<>>

NextContainer == addDataSession

SpecContainer == InitContainer /\ [][NextContainer]_vars

\* C30: the session addDataSession returns was created with the parameters
\* of the call: start time, end time, sample interval, reference valve
\* position, reference heat load and, for a Cavity, calibration session and
\* reference gradient.
C30_ReturnedSessionMatchesCall ==
    returned # <<>> => returned = lastCall

====
